---- MODULE Spec2Model ----
(***************************************************************************)
(* Model of the grid database layer of eb_gridmaker (src/eb_gridmaker/     *)
(* dtb.py): one shard process writing grid nodes to its own SQLite file,   *)
(* the breakpoint search used on restart, and merge_databases.             *)
(*                                                                         *)
(* A database file is a record                                             *)
(*   exists     - the file is on disk                                      *)
(*   tables     - the names of the tables created in it                    *)
(*   parameters - committed rows [id, val], in insertion (rowid) order     *)
(*   curves     - committed rows [id, flux], in insertion (rowid) order    *)
(*   auxiliary  - committed rows [rowid, last_index]                       *)
(* Only committed rows are state: every helper of dtb.py ends in           *)
(* conn.commit(), and SQLite rolls an uncommitted statement back when the  *)
(* process dies, so a kill inside a helper leaves the file as it was       *)
(* before the helper and a kill after it leaves the helper's row durable.  *)
(***************************************************************************)
EXTENDS Integers, Sequences, FiniteSets, TLC

\* ---------------------------------------------------------------- bounds
\* number of candidate nodes of the shard's batch
MaxNodes == 3
\* node ids of the batch are IdBase+1 .. IdBase+MaxNodes
IdBase == 4
\* distinct observation payloads the physics may return
MaxVal == 1
\* longest db_list handed to merge_databases
MaxSources == 2

\* ---------------------------------------------------------------- inputs
ShardPath == "A"
OtherPath == "B"
FreshPath == "C"
Paths == {ShardPath, OtherPath, FreshPath}

\* ids of the batch, in the orchestrator's order (a numpy array in the code)
Candidates == [i \in 1..MaxNodes |-> IdBase + i]
Values == 1..MaxVal

\* candidate lists a caller may hand to search_for_breakpoint: the contiguous
\* slices of the batch, the empty list included
IdLists == {SubSeq(Candidates, a, b) : a \in 1..MaxNodes, b \in 0..MaxNodes}

RECURSIVE SeqsUpTo(_, _)
SeqsUpTo(S, n) ==
    IF n = 0 THEN {<<>>}
    ELSE LET shorter == SeqsUpTo(S, n - 1)
         IN  shorter \cup {Append(s, x) : s \in {t \in shorter : Len(t) = n - 1}, x \in S}

DbLists == SeqsUpTo(Paths, MaxSources)

\* the passband columns of the curves table (config.PASSBAND_COLLUMN_MAP.values())
PassbandColumns == {"V", "B"}

\* passband lists a caller may hand to get_observations; "X" is no column
PassbandLists ==
    {<<>>, <<"V">>, <<"V", "B">>, <<"B", "V">>, <<"V", "V">>, <<"V", "X">>,
     <<"X", "V">>}

\* id collections a caller may hand to get_observations
IdSets ==
    {{}, {Candidates[1], Candidates[MaxNodes]}, {Candidates[2], IdBase + MaxNodes + 1}}

\* ---------------------------------------------------------------- errors
NoError == "ok"
IntegrityError == "sqlite3.IntegrityError"
OperationalError == "sqlite3.OperationalError"
KeyError == "KeyError"
InvalidParameterError == "InvalidParameterError"
BreakpointValueError == "ValueError: IDs of already calculated objects do not correspond"
NotAListValueError == "ValueError: Function requires list of filenames"
TooFewValueError == "ValueError: You need at least two databases to merge"
OutputExistsIOError == "IOError: Output file already exists"
InvalidPassbandsValueError == "ValueError: Invalid passbands"
CreateCebDbTypeError == "TypeError: create_ceb_db() missing 2 required positional arguments"

VARIABLES fs, pc, next, obs, shardErr, lastCall

vars == <<fs, pc, next, obs, shardErr, lastCall>>

\* ---------------------------------------------------------------- database
NoFile ==
    [exists |-> FALSE, tables |-> {}, parameters |-> <<>>, curves |-> <<>>,
     auxiliary |-> <<>>]

Ids(rows) == {rows[i].id : i \in 1..Len(rows)}

\* Mutant of Connect: the file is opened afresh, what it held is gone.
ConnectTruncating(db) ==
    [exists |-> TRUE, tables |-> {}, parameters |-> <<>>, curves |-> <<>>,
     auxiliary |-> <<>>]

\* sqlite3.connect(db_name): opens the file, creating it when it is missing
Connect(db) == [db EXCEPT !.exists = TRUE]

\* Mutant of create_table: the table is dropped and created again.
create_table_again(db, name) == [db EXCEPT !.tables = @ \cup {name}, ![name] = <<>>]

\* CREATE TABLE IF NOT EXISTS name (...); commit
create_table(db, name) == [db EXCEPT !.tables = @ \cup {name}]

create_ceb_db(db) ==
    create_table(create_table(create_table(Connect(db), "parameters"), "curves"),
                 "auxiliary")

\* Mutant of insert_to_table: INSERT OR REPLACE, the row of the id is overwritten.
insert_to_table_replace(db, table, row) ==
    IF table \notin db.tables
    THEN [err |-> OperationalError, db |-> db]
    ELSE [err |-> NoError,
          db |-> [db EXCEPT ![table] =
                     Append(SelectSeq(@, LAMBDA r : r.id # row.id), row)]]

\* Mutant of insert_to_table: the commit of a parameters row is missing, so the
\* row is lost when the connection closes.
insert_to_table_parameters_lost(db, table, row) ==
    IF table \notin db.tables
    THEN [err |-> OperationalError, db |-> db]
    ELSE IF row.id \in Ids(db[table])
    THEN [err |-> IntegrityError, db |-> db]
    ELSE IF table = "parameters"
    THEN [err |-> NoError, db |-> db]
    ELSE [err |-> NoError, db |-> [db EXCEPT ![table] = Append(@, row)]]

\* INSERT INTO table (...) VALUES (...); commit.  parameters and curves both
\* declare PRIMARY KEY (id); the FOREIGN KEY of curves is declared but the
\* connection never sets PRAGMA foreign_keys, so SQLite does not enforce it.
insert_to_table(db, table, row) ==
    IF table \notin db.tables
    THEN [err |-> OperationalError, db |-> db]
    ELSE IF row.id \in Ids(db[table])
    THEN [err |-> IntegrityError, db |-> db]
    ELSE [err |-> NoError, db |-> [db EXCEPT ![table] = Append(@, row)]]

\* Mutant of update_last_id: the marker is written one node ahead.
update_last_id_ahead(db, last_id) ==
    IF "auxiliary" \notin db.tables
    THEN [err |-> OperationalError, db |-> db]
    ELSE [err |-> NoError,
          db |-> [db EXCEPT !.auxiliary =
                     Append(SelectSeq(@, LAMBDA r : r.rowid # 0),
                            [rowid |-> 0, last_index |-> last_id + 1])]]

\* Mutant of update_last_id: INSERT instead of REPLACE, a row is added.
update_last_id_append(db, last_id) ==
    IF "auxiliary" \notin db.tables
    THEN [err |-> OperationalError, db |-> db]
    ELSE [err |-> NoError,
          db |-> [db EXCEPT !.auxiliary =
                     Append(@, [rowid |-> Len(@), last_index |-> last_id])]]

\* REPLACE INTO auxiliary (_rowid_, last_index) VALUES (0, last_id); commit
update_last_id(db, last_id) ==
    IF "auxiliary" \notin db.tables
    THEN [err |-> OperationalError, db |-> db]
    ELSE [err |-> NoError,
          db |-> [db EXCEPT !.auxiliary =
                     Append(SelectSeq(@, LAMBDA r : r.rowid # 0),
                            [rowid |-> 0, last_index |-> last_id])]]

\* SELECT last_index FROM auxiliary, as the list of its values
LastIdx(db) == [i \in 1..Len(db.auxiliary) |-> db.auxiliary[i].last_index]

InList(x, ids) == \E i \in 1..Len(ids) : ids[i] = x

\* Mutant of FirstIndex: the position counted from one.
FirstIndexFromOne(x, ids) ==
    CHOOSE i \in 1..Len(ids) : ids[i] = x /\ \A j \in 1..(i - 1) : ids[j] # x

\* np.where(x == ids)[0][0]: the 0-based position of the first occurrence
FirstIndex(x, ids) ==
    (CHOOSE i \in 1..Len(ids) : ids[i] = x /\ \A j \in 1..(i - 1) : ids[j] # x) - 1

\* Mutant of search_for_breakpoint: a marker outside the batch restarts at 0.
search_for_breakpoint_restart(db, ids) ==
    IF "auxiliary" \notin db.tables
    THEN [err |-> OperationalError, value |-> -1]
    ELSE IF Len(LastIdx(db)) = 0
    THEN [err |-> NoError, value |-> 0]
    ELSE IF InList(LastIdx(db)[1], ids)
    THEN [err |-> NoError, value |-> FirstIndex(LastIdx(db)[1], ids)]
    ELSE [err |-> NoError, value |-> 0]

search_for_breakpoint(db, ids) ==
    IF "auxiliary" \notin db.tables
    THEN [err |-> OperationalError, value |-> -1]
    ELSE IF Len(LastIdx(db)) = 0
    THEN [err |-> NoError, value |-> 0]
    ELSE IF InList(LastIdx(db)[1], ids)
    THEN [err |-> NoError, value |-> FirstIndex(LastIdx(db)[1], ids)]
    ELSE [err |-> BreakpointValueError, value |-> -1]

\* Mutant of merge_databases: the destination is created and the first
\* source is copied and committed before the failure.
merge_databases_first_copied(fsys, isList, db_list, result_db) ==
    IF ~isList
    THEN [err |-> NotAListValueError, fs |-> fsys]
    ELSE IF Len(db_list) <= 1
    THEN [err |-> TooFewValueError, fs |-> fsys]
    ELSE IF fsys[result_db].exists
    THEN [err |-> OutputExistsIOError, fs |-> fsys]
    ELSE [err |-> IntegrityError,
          fs |-> [fsys EXCEPT ![result_db] =
                     [exists |-> TRUE, tables |-> {"parameters", "curves"},
                      parameters |-> fsys[db_list[1]].parameters,
                      curves |-> fsys[db_list[1]].curves,
                      auxiliary |-> <<>>]]]

\* Mutant of merge_databases: the existing output file is not looked for.
merge_databases_no_isfile(fsys, isList, db_list, result_db) ==
    IF ~isList
    THEN [err |-> NotAListValueError, fs |-> fsys]
    ELSE IF Len(db_list) <= 1
    THEN [err |-> TooFewValueError, fs |-> fsys]
    ELSE [err |-> CreateCebDbTypeError, fs |-> fsys]

\* Mutant of merge_databases: a single source is let through.
merge_databases_one_source(fsys, isList, db_list, result_db) ==
    IF ~isList
    THEN [err |-> NotAListValueError, fs |-> fsys]
    ELSE IF Len(db_list) < 1
    THEN [err |-> TooFewValueError, fs |-> fsys]
    ELSE IF fsys[result_db].exists
    THEN [err |-> OutputExistsIOError, fs |-> fsys]
    ELSE [err |-> CreateCebDbTypeError, fs |-> fsys]

\* merge_databases(db_list, result_db).  create_ceb_db is called with the
\* destination alone although it takes param_columns and param_types without
\* defaults, so the call raises TypeError before any file is opened; the
\* statements after it (DROP TABLE auxiliary, the ATTACH / INSERT ... SELECT /
\* commit / DETACH loop) are never executed.
merge_databases(fsys, isList, db_list, result_db) ==
    IF ~isList
    THEN [err |-> NotAListValueError, fs |-> fsys]
    ELSE IF Len(db_list) <= 1
    THEN [err |-> TooFewValueError, fs |-> fsys]
    ELSE IF fsys[result_db].exists
    THEN [err |-> OutputExistsIOError, fs |-> fsys]
    ELSE [err |-> CreateCebDbTypeError, fs |-> fsys]

\* The array stored in column passband of a curves row: observer.fluxes[p] of
\* the observation the row was written from.
Column(row, passband) == <<passband, row.flux>>

\* The keys of {passband: [] for passband in passbands}, in dict order.
Keys(passbands) ==
    LET K[i \in 0..Len(passbands)] ==
            IF i = 0 THEN <<>>
            ELSE IF InList(passbands[i], K[i - 1]) THEN K[i - 1]
            ELSE Append(K[i - 1], passbands[i])
    IN  K[Len(passbands)]

\* What one selected row appends to resfile[k]: row[ii] for every position ii
\* of the request that names k.
RowEntries(row, passbands, k) ==
    LET F[i \in 0..Len(passbands)] ==
            IF i = 0 THEN <<>>
            ELSE IF passbands[i] = k THEN Append(F[i - 1], Column(row, passbands[i]))
            ELSE F[i - 1]
    IN  F[Len(passbands)]

\* resfile[k] after the loop over the cursor: the rows come in table order
\* (SELECT without ORDER BY), and only those with row[-1] in ids are taken.
Entries(rows, ids, passbands, k) ==
    LET G[n \in 0..Len(rows)] ==
            IF n = 0 THEN <<>>
            ELSE IF rows[n].id \in ids THEN G[n - 1] \o RowEntries(rows[n], passbands, k)
            ELSE G[n - 1]
    IN  G[Len(rows)]

\* Mutant of get_observations: unknown passbands are dropped from the request.
get_observations_skip_invalid(db, ids, passbands) ==
    LET known == SelectSeq(passbands, LAMBDA x : x \in PassbandColumns)
    IN  IF Len(known) = 0 \/ "curves" \notin db.tables
        THEN [err |-> OperationalError, value |-> <<>>, db |-> Connect(db)]
        ELSE [err |-> NoError,
              value |-> [i \in 1..Len(Keys(known)) |->
                           [passband |-> Keys(known)[i],
                            entries |-> Entries(db.curves, ids, known, Keys(known)[i])]],
              db |-> Connect(db)]

\* get_observations(db_name, ids, passbands): the passbands are checked before
\* the file is opened; "SELECT <passbands>, id FROM curves" is no SQL when the
\* list is empty and fails when the table is missing.
get_observations(db, ids, passbands) ==
    IF \E i \in 1..Len(passbands) : passbands[i] \notin PassbandColumns
    THEN [err |-> InvalidPassbandsValueError, value |-> <<>>, db |-> db]
    ELSE IF Len(passbands) = 0 \/ "curves" \notin db.tables
    THEN [err |-> OperationalError, value |-> <<>>, db |-> Connect(db)]
    ELSE [err |-> NoError,
          value |-> [i \in 1..Len(Keys(passbands)) |->
                       [passband |-> Keys(passbands)[i],
                        entries |-> Entries(db.curves, ids, passbands, Keys(passbands)[i])]],
          db |-> Connect(db)]

\* ---------------------------------------------------------------- initial state
\* Another shard's finished database: one node, either with the id of the first
\* candidate of this shard or with an id outside the batch.
FinishedShard(n, v) ==
    [exists |-> TRUE, tables |-> {"parameters", "curves", "auxiliary"},
     parameters |-> <<[id |-> n, val |-> v]>>,
     curves |-> <<[id |-> n, flux |-> v]>>,
     auxiliary |-> <<[rowid |-> 0, last_index |-> n]>>]

NoCall ==
    [op |-> "none", path |-> ShardPath, ids |-> <<>>, isList |-> TRUE,
     dbList |-> <<>>, idset |-> {}, passbands |-> <<>>, curves |-> <<>>,
     err |-> NoError, value |-> 0]

Init ==
    /\ \E n \in {IdBase + 1, IdBase + MaxNodes + 1} :
          fs = [p \in Paths |-> IF p = OtherPath THEN FinishedShard(n, 1) ELSE NoFile]
    /\ pc = "down"
    /\ next = 0
    /\ obs = 0
    /\ shardErr = NoError
    /\ lastCall = NoCall

\* ---------------------------------------------------------------- shard process
\* The node the loop is at (python index next).
Node == Candidates[next + 1]

\* Index the orchestrator continues at: one past the breakpoint when progress
\* exists, the start of the batch on a fresh database.
StartIndex(db, brk) == IF Len(db.auxiliary) = 0 THEN 0 ELSE brk + 1

\* The orchestrator (re)starts the shard: it makes sure the schema exists.
Start ==
    /\ lastCall = NoCall
    /\ pc \in {"down", "failed", "done"}
    /\ fs' = [fs EXCEPT ![ShardPath] = create_ceb_db(@)]
    /\ pc' = "resolve"
    /\ next' = 0
    /\ obs' = 0
    /\ shardErr' = NoError
    /\ UNCHANGED lastCall

\* It asks for the breakpoint of its batch and continues after it.
Resume ==
    /\ lastCall = NoCall
    /\ pc = "resolve"
    /\ LET r == search_for_breakpoint(fs[ShardPath], Candidates)
       IN  IF r.err # NoError
           THEN /\ pc' = "failed"
                /\ shardErr' = r.err
                /\ next' = next
           ELSE /\ pc' = "loop"
                /\ shardErr' = shardErr
                /\ next' = StartIndex(fs[ShardPath], r.value)
    /\ UNCHANGED <<fs, obs, lastCall>>

Finish ==
    /\ lastCall = NoCall
    /\ pc = "loop"
    /\ next >= Len(Candidates)
    /\ pc' = "done"
    /\ UNCHANGED <<fs, next, obs, shardErr, lastCall>>

\* aux.typing(values, param_types): the values are coerced to the declared
\* types of the columns; a value that cannot be coerced is an error.
typing(coercible) == IF coercible THEN NoError ELSE InvalidParameterError

\* Mutant of InsertParameters: the row is inserted before its values are typed.
InsertParametersTypingLate ==
    /\ lastCall = NoCall
    /\ pc = "loop"
    /\ next < Len(Candidates)
    /\ \E v \in Values, coercible \in BOOLEAN :
          LET r == insert_to_table(fs[ShardPath], "parameters", [id |-> Node, val |-> v])
          IN  /\ obs' = v
              /\ fs' = [fs EXCEPT ![ShardPath] = r.db]
              /\ shardErr' = IF r.err # NoError THEN r.err ELSE typing(coercible)
              /\ pc' = IF r.err = NoError /\ coercible THEN "curves" ELSE "failed"
    /\ UNCHANGED <<next, lastCall>>

\* insert_observation, first statement group: the values of the node are typed,
\* then the parameters row is inserted and committed.
InsertParameters ==
    /\ lastCall = NoCall
    /\ pc = "loop"
    /\ next < Len(Candidates)
    /\ \E v \in Values, coercible \in BOOLEAN :
          LET r == insert_to_table(fs[ShardPath], "parameters", [id |-> Node, val |-> v])
          IN  /\ obs' = v
              /\ IF typing(coercible) # NoError
                 THEN /\ fs' = fs
                      /\ shardErr' = typing(coercible)
                      /\ pc' = "failed"
                 ELSE /\ fs' = [fs EXCEPT ![ShardPath] = r.db]
                      /\ shardErr' = r.err
                      /\ pc' = IF r.err = NoError THEN "curves" ELSE "failed"
    /\ UNCHANGED <<next, lastCall>>

\* insert_observation, second group: observer.fluxes[p] for every passband
\* (KeyError when the observer lacks one), then the curves row and its commit.
InsertCurves ==
    /\ lastCall = NoCall
    /\ pc = "curves"
    /\ \E hasFluxes \in BOOLEAN :
          LET r == insert_to_table(fs[ShardPath], "curves", [id |-> Node, flux |-> obs])
          IN  IF ~hasFluxes
              THEN /\ fs' = fs
                   /\ shardErr' = KeyError
                   /\ pc' = "failed"
              ELSE /\ fs' = [fs EXCEPT ![ShardPath] = r.db]
                   /\ shardErr' = r.err
                   /\ pc' = IF r.err = NoError THEN "aux" ELSE "failed"
    /\ UNCHANGED <<next, obs, lastCall>>

\* insert_observation, third group: the marker, then the loop moves on.
UpdateLastId ==
    /\ lastCall = NoCall
    /\ pc = "aux"
    /\ LET r == update_last_id(fs[ShardPath], Node)
       IN  /\ fs' = [fs EXCEPT ![ShardPath] = r.db]
           /\ shardErr' = r.err
           /\ pc' = IF r.err = NoError THEN "loop" ELSE "failed"
           /\ next' = IF r.err = NoError THEN next + 1 ELSE next
    /\ obs' = 0
    /\ UNCHANGED lastCall

\* The process is killed: what it held in memory is gone, the file stays.
Kill ==
    /\ lastCall = NoCall
    /\ pc \in {"resolve", "loop", "curves", "aux"}
    /\ pc' = "down"
    /\ next' = 0
    /\ obs' = 0
    /\ UNCHANGED <<fs, shardErr, lastCall>>

\* ---------------------------------------------------------------- calls
\* Any caller asks for a breakpoint of any file with any candidate list.
SearchCall ==
    \E p \in Paths, ids \in IdLists :
       LET r == search_for_breakpoint(Connect(fs[p]), ids)
       IN  /\ lastCall = NoCall
           /\ fs' = [fs EXCEPT ![p] = Connect(@)]
           /\ lastCall' = [op |-> "search_for_breakpoint", path |-> p, ids |-> ids,
                           isList |-> TRUE, dbList |-> <<>>, idset |-> {},
                           passbands |-> <<>>, curves |-> <<>>, err |-> r.err,
                           value |-> r.value]
           /\ UNCHANGED <<pc, next, obs, shardErr>>

\* Any caller asks for a merge: db_list is a list of paths, or something that is
\* not a list (then it has no items to look at).
MergeCall ==
    \E isList \in BOOLEAN, l \in DbLists, dest \in Paths :
       LET r == merge_databases(fs, isList, l, dest)
       IN  /\ lastCall = NoCall
           /\ (~isList => l = <<>>)
           /\ fs' = r.fs
           /\ lastCall' = [op |-> "merge_databases", path |-> dest, ids |-> <<>>,
                           isList |-> isList, dbList |-> l, idset |-> {},
                           passbands |-> <<>>, curves |-> <<>>, err |-> r.err,
                           value |-> 0]
           /\ UNCHANGED <<pc, next, obs, shardErr>>

\* Any caller creates the schema in the file of a shard, new or already
\* initialised.
CreateCall ==
    \E p \in {ShardPath, OtherPath} :
       /\ lastCall = NoCall
       /\ fs' = [fs EXCEPT ![p] = create_ceb_db(@)]
       /\ lastCall' = [op |-> "create_ceb_db", path |-> p, ids |-> <<>>,
                       isList |-> TRUE, dbList |-> <<>>, idset |-> {},
                       passbands |-> <<>>, curves |-> <<>>, err |-> NoError,
                       value |-> 0]
       /\ UNCHANGED <<pc, next, obs, shardErr>>

\* Any caller asks for the curves of some ids in some passbands of any file.
GetCall ==
    \E p \in Paths, ids \in IdSets, pb \in PassbandLists :
       LET r == get_observations(fs[p], ids, pb)
       IN  /\ lastCall = NoCall
           /\ fs' = [fs EXCEPT ![p] = r.db]
           /\ lastCall' = [op |-> "get_observations", path |-> p, ids |-> <<>>,
                           isList |-> TRUE, dbList |-> <<>>, idset |-> ids,
                           passbands |-> pb, curves |-> r.value, err |-> r.err,
                           value |-> 0]
           /\ UNCHANGED <<pc, next, obs, shardErr>>

\* The caller has looked at what the call gave and goes on.
Return ==
    /\ lastCall # NoCall
    /\ lastCall' = NoCall
    /\ UNCHANGED <<fs, pc, next, obs, shardErr>>

\* One shard with its restarts and kills, and callers asking for breakpoints
\* and merges between its steps.
Next ==
    \/ Start
    \/ Resume
    \/ Finish
    \/ InsertParameters
    \/ InsertCurves
    \/ UpdateLastId
    \/ Kill
    \/ SearchCall
    \/ MergeCall
    \/ GetCall
    \/ CreateCall
    \/ Return

Spec == Init /\ [][Next]_vars

\* ---------------------------------------------------------------- properties
Db == fs[ShardPath]

SearchStep == lastCall = NoCall /\ lastCall'.op = "search_for_breakpoint"
MergeStep == lastCall = NoCall /\ lastCall'.op = "merge_databases"

RowSet(rows) == {rows[i] : i \in 1..Len(rows)}

RowsUnchanged ==
    \A p \in Paths :
       /\ fs'[p].parameters = fs[p].parameters
       /\ fs'[p].curves = fs[p].curves
       /\ fs'[p].auxiliary = fs[p].auxiliary

\* C1: in every state a kill can leave behind, a progress marker that is present
\* names a node whose parameters row and curves row are both committed.
C1_MarkerNamesCommittedNode ==
    \A i \in 1..Len(Db.auxiliary) :
       /\ Db.auxiliary[i].last_index \in Ids(Db.parameters)
       /\ Db.auxiliary[i].last_index \in Ids(Db.curves)

\* C1 witness: the process was killed inside a write (a parameters row without
\* its curves row is on disk) while a marker of an earlier node is present.
C1_Witness ==
    /\ pc = "down"
    /\ Len(Db.auxiliary) = 1
    /\ Ids(Db.parameters) # Ids(Db.curves)

\* C2 (claim as stated): after a failure between the parameters insert and the
\* curves insert of a node, neither row of that node is committed.
C2_WriteNodeAtomic ==
    (pc = "failed" /\ shardErr = KeyError) =>
       /\ Node \notin Ids(Db.parameters)
       /\ Node \notin Ids(Db.curves)

\* C3 (claim as stated): with restarts that continue one past the breakpoint, a
\* completed run has written every candidate exactly once, and no insert is ever
\* issued for a node that is already in the database (sqlite3.IntegrityError is
\* what the second insert of an id gives).
C3_ResumeExactlyOnce ==
    /\ pc = "done" =>
          /\ [i \in 1..Len(Db.parameters) |-> Db.parameters[i].id] = Candidates
          /\ [i \in 1..Len(Db.curves) |-> Db.curves[i].id] = Candidates
    /\ shardErr # IntegrityError

\* C4: search_for_breakpoint gives 0 when there is no marker and the 0-based
\* position of the marker in the candidate list when the marker is in it; at the
\* head of the loop, after the first k candidates were written (k >= 1), it gives
\* k - 1 for the batch.
C4_BreakpointIndex ==
    /\ (lastCall = NoCall /\ pc = "loop" /\ next >= 1) =>
          search_for_breakpoint(Db, Candidates) = [err |-> NoError, value |-> next - 1]
    /\ (lastCall.op = "search_for_breakpoint" /\ "auxiliary" \in fs[lastCall.path].tables) =>
          LET aux == fs[lastCall.path].auxiliary
              ids == lastCall.ids
          IN  /\ aux = <<>> => (lastCall.err = NoError /\ lastCall.value = 0)
              /\ (aux # <<>> /\ InList(aux[1].last_index, ids)) =>
                    /\ lastCall.err = NoError
                    /\ lastCall.value \in 0..(Len(ids) - 1)
                    /\ ids[lastCall.value + 1] = aux[1].last_index
                    /\ \A j \in 1..lastCall.value : ids[j] # aux[1].last_index

\* C4 witness: two candidates are written and the search over the batch gave 1.
C4_Witness ==
    /\ lastCall.op = "search_for_breakpoint"
    /\ lastCall.path = ShardPath
    /\ lastCall.ids = Candidates
    /\ Len(Db.curves) = 2
    /\ Db.auxiliary = <<[rowid |-> 0, last_index |-> Candidates[2]]>>
    /\ lastCall.value = 1

\* C5: a search whose marker is not in the candidate list raises the ValueError
\* of the mismatch branch and changes no row and no marker.
C5_MismatchRaises ==
    [][(/\ SearchStep
        /\ "auxiliary" \in fs[lastCall'.path].tables
        /\ fs[lastCall'.path].auxiliary # <<>>
        /\ ~InList(fs[lastCall'.path].auxiliary[1].last_index, lastCall'.ids))
       => (lastCall'.err = BreakpointValueError /\ RowsUnchanged)]_vars

\* C5 witness: the shard's marker is set and a search with a list without it failed.
C5_Witness ==
    /\ lastCall.op = "search_for_breakpoint"
    /\ lastCall.path = ShardPath
    /\ lastCall.ids # <<>>
    /\ Db.auxiliary # <<>>
    /\ lastCall.err = BreakpointValueError

\* The sources of a merge exist with both tables, and the destination does not.
MergeInputsOk(fsys, call) ==
    /\ call.isList
    /\ Len(call.dbList) >= 2
    /\ ~fsys[call.path].exists
    /\ \A i \in 1..Len(call.dbList) :
          {"parameters", "curves"} \subseteq fsys[call.dbList[i]].tables

\* The sources are different files, each with rows and with a curves row for
\* every parameters row.
DistinctSources(fsys, call) ==
    /\ \A i, j \in 1..Len(call.dbList) : i < j => call.dbList[i] # call.dbList[j]
    /\ \A i \in 1..Len(call.dbList) :
          /\ fsys[call.dbList[i]].parameters # <<>>
          /\ Ids(fsys[call.dbList[i]].parameters) = Ids(fsys[call.dbList[i]].curves)

SourcesCollide(fsys, call) ==
    \E i, j \in 1..Len(call.dbList) :
       /\ i < j
       /\ Ids(fsys[call.dbList[i]].parameters) \cap Ids(fsys[call.dbList[j]].parameters) # {}

UnionOf(fsys, call, table) ==
    UNION {RowSet(fsys[call.dbList[i]][table]) : i \in 1..Len(call.dbList)}

\* C6 (claim as stated): a merge of different written sources with pairwise
\* disjoint node ids into a new destination succeeds, and the destination then
\* holds exactly the union of the sources' parameters rows and of their curves
\* rows, values unchanged.
C6_MergeIsUnion ==
    [][(/\ MergeStep
        /\ MergeInputsOk(fs, lastCall')
        /\ DistinctSources(fs, lastCall')
        /\ ~SourcesCollide(fs, lastCall'))
       => /\ lastCall'.err = NoError
          /\ RowSet(fs'[lastCall'.path].parameters) = UnionOf(fs, lastCall', "parameters")
          /\ RowSet(fs'[lastCall'.path].curves) = UnionOf(fs, lastCall', "curves")]_vars

\* C7 (claim as stated): a merge of different sources that hold the same node id fails
\* with the error of a conflict (the primary-key violation is the only signal of
\* a collision the database gives) and leaves no row in the destination.
C7_MergeConflictRaises ==
    [][(/\ MergeStep
        /\ MergeInputsOk(fs, lastCall')
        /\ DistinctSources(fs, lastCall')
        /\ SourcesCollide(fs, lastCall'))
       => /\ lastCall'.err = IntegrityError
          /\ fs'[lastCall'.path].parameters = <<>>
          /\ fs'[lastCall'.path].curves = <<>>]_vars

\* C9: a merge into a new destination that has not succeeded leaves no row in the
\* destination, so no reader sees the rows of only some of the sources.
C9_NoPartialMerge ==
    [][(MergeStep /\ MergeInputsOk(fs, lastCall') /\ lastCall'.err # NoError)
       => /\ fs'[lastCall'.path].parameters = <<>>
          /\ fs'[lastCall'.path].curves = <<>>]_vars

\* C9 witness: a merge of two sources that both hold rows into a path that did not
\* exist has failed.
C9_Witness ==
    /\ lastCall.op = "merge_databases"
    /\ MergeInputsOk(fs, lastCall)
    /\ lastCall.err # NoError
    /\ DistinctSources(fs, lastCall)

\* C10: a merge of two or more sources into a path that names an existing file
\* raises the IOError of the existing output and leaves every file as it was.
C10_ExistingDestinationRejected ==
    [][(MergeStep /\ lastCall'.isList /\ Len(lastCall'.dbList) >= 2
        /\ fs[lastCall'.path].exists)
       => (lastCall'.err = OutputExistsIOError /\ fs' = fs)]_vars

\* C10 witness: the merge into the shard's file, which holds rows, was rejected.
C10_Witness ==
    /\ lastCall.op = "merge_databases"
    /\ Len(lastCall.dbList) >= 2
    /\ lastCall.path = ShardPath
    /\ Db.parameters # <<>>
    /\ lastCall.err = OutputExistsIOError

\* C11: a merge with a list of fewer than two sources raises the ValueError of
\* the length test, and no file is created or changed.
C11_TooFewSourcesRejected ==
    [][(MergeStep /\ lastCall'.isList /\ Len(lastCall'.dbList) < 2)
       => (lastCall'.err = TooFewValueError /\ fs' = fs)]_vars

\* C11 witness: a merge of one existing source into a path that does not exist
\* was rejected, and the path still does not exist.
C11_Witness ==
    /\ lastCall.op = "merge_databases"
    /\ lastCall.isList
    /\ Len(lastCall.dbList) = 1
    /\ fs[lastCall.dbList[1]].exists
    /\ ~fs[lastCall.path].exists
    /\ lastCall.err = TooFewValueError

\* C12 (claim as stated): the auxiliary table of the shard's database holds
\* exactly one row in every state.
C12_ExactlyOneRow == "auxiliary" \in Db.tables => Len(Db.auxiliary) = 1

\* C12 (amended): the auxiliary table of a database never holds more than one
\* row; the shard's table changes only when a write of a node completes, and
\* then it holds the one row with that node's id.
C12_AtMostOneRow ==
    /\ [](\A p \in Paths : Len(fs[p].auxiliary) <= 1)
    /\ [][Db'.auxiliary # Db.auxiliary =>
            /\ pc = "aux"
            /\ Db'.auxiliary = <<[rowid |-> 0, last_index |-> Node]>>]_vars

\* C12 witness: the marker was overwritten: it names the second candidate after
\* two completed writes and is the only row.
C12_Witness ==
    /\ pc = "loop"
    /\ next = 2
    /\ Db.auxiliary = <<[rowid |-> 0, last_index |-> Candidates[2]]>>

\* C13: in every state, a kill's leftovers and the middle of a write included,
\* every id of a curves table is an id of the parameters table of the same file.
C13_CurvesHaveParameters ==
    \A p \in Paths : Ids(fs[p].curves) \subseteq Ids(fs[p].parameters)

\* C13 witness: the shard is in the middle of the write of its second node: the
\* first has both rows, the second its parameters row only.
C13_Witness ==
    /\ pc = "curves"
    /\ next = 1
    /\ Ids(Db.curves) = {Candidates[1]}
    /\ Ids(Db.parameters) = {Candidates[1], Candidates[2]}

GetStep == lastCall = NoCall /\ lastCall'.op = "get_observations"

\* The ids of S in ascending order.
Ascending(S) ==
    CHOOSE s \in [1..Cardinality(S) -> S] : \A i, j \in 1..Cardinality(S) : i < j => s[i] < s[j]

RowOf(rows, n) == CHOOSE r \in RowSet(rows) : r.id = n

\* C14 (claim as stated): for a request of known passbands on a database with a
\* curves table, get_observations gives no error and a mapping whose keys are the
\* requested passbands, each with exactly one entry per stored node whose id is
\* requested, in ascending id order (so the passbands are aligned, and the
\* sequences are empty when no stored node matches).
C14_GetCurves ==
    (/\ lastCall.op = "get_observations"
     /\ Len(lastCall.passbands) >= 1
     /\ \A i \in 1..Len(lastCall.passbands) : lastCall.passbands[i] \in PassbandColumns
     /\ "curves" \in fs[lastCall.path].tables)
    => LET rows == fs[lastCall.path].curves
           asc == Ascending({n \in Ids(rows) : n \in lastCall.idset})
           res == lastCall.curves
       IN  /\ lastCall.err = NoError
           /\ {res[i].passband : i \in 1..Len(res)}
                 = {lastCall.passbands[i] : i \in 1..Len(lastCall.passbands)}
           /\ \A i \in 1..Len(res) :
                 res[i].entries
                    = [j \in 1..Len(asc) |-> Column(RowOf(rows, asc[j]), res[i].passband)]

\* C15: a request that names a passband that is no column raises the ValueError
\* of the passband test, whatever the other passbands are, gives no result and
\* touches no file.
C15_InvalidPassbandRaises ==
    [][(GetStep /\ \E i \in 1..Len(lastCall'.passbands) :
                      lastCall'.passbands[i] \notin PassbandColumns)
       => /\ lastCall'.err = InvalidPassbandsValueError
          /\ lastCall'.curves = <<>>
          /\ fs' = fs]_vars

\* C15 witness: a request of a known and an unknown passband on the shard's
\* database, which holds curves, was rejected.
C15_Witness ==
    /\ lastCall.op = "get_observations"
    /\ lastCall.path = ShardPath
    /\ lastCall.passbands = <<"V", "X">>
    /\ Db.curves # <<>>
    /\ lastCall.err = InvalidPassbandsValueError

\* C19: a call of search_for_breakpoint or of get_observations, whether it gives
\* a value or raises, leaves the parameters rows, the curves rows and the marker
\* of every file as they were.
C19_ReadOnly == [][(SearchStep \/ GetStep) => RowsUnchanged]_vars

\* C19 witness: get_observations gave entries from the shard's database, which
\* holds a marker.
C19_Witness ==
    /\ lastCall.op = "get_observations"
    /\ lastCall.path = ShardPath
    /\ lastCall.err = NoError
    /\ \E i \in 1..Len(lastCall.curves) : lastCall.curves[i].entries # <<>>
    /\ Db.auxiliary # <<>>

Initialised(db) == {"parameters", "curves", "auxiliary"} \subseteq db.tables

\* create_ceb_db is called on an initialised file: by a caller, or by the
\* restart of the shard.
CreateStep ==
    \/ /\ lastCall = NoCall
       /\ lastCall'.op = "create_ceb_db"
       /\ Initialised(fs[lastCall'.path])
    \/ /\ lastCall = NoCall
       /\ lastCall' = NoCall
       /\ pc \in {"down", "failed", "done"}
       /\ pc' = "resolve"
       /\ Initialised(Db)

\* C16: create_ceb_db on a file that already has the three tables raises nothing
\* and leaves the tables, every row and the marker as they were.
C16_CreateIdempotent ==
    [][CreateStep => (fs' = fs /\ lastCall'.err = NoError)]_vars

\* C16 witness: the schema was created again in the shard's database while it
\* held rows and a marker.
C16_Witness ==
    /\ lastCall.op = "create_ceb_db"
    /\ lastCall.path = ShardPath
    /\ Db.curves # <<>>
    /\ Db.auxiliary # <<>>

\* C17: when the values of a node cannot be coerced, the write stops with
\* InvalidParameterError and no parameters row, curves row or marker is written.
C17_TypingFailureWritesNothing ==
    [][(pc = "loop" /\ pc' = "failed" /\ shardErr' = InvalidParameterError) => fs' = fs]_vars

\* C17 witness: the write of the second node stopped at the typing; the node has
\* no row and the marker still names the first node.
C17_Witness ==
    /\ pc = "failed"
    /\ shardErr = InvalidParameterError
    /\ next = 1
    /\ Node \notin Ids(Db.parameters)
    /\ Db.auxiliary = <<[rowid |-> 0, last_index |-> Candidates[1]]>>

\* C18: a write of a node whose id is already in the database fails and leaves
\* every row and the marker as they were.
C18_ExistingNodeRejected ==
    [][(/\ pc = "loop"
        /\ pc' \in {"curves", "failed"}
        /\ Node \in Ids(Db.parameters) \cup Ids(Db.curves))
       => (pc' = "failed" /\ shardErr' # NoError /\ fs' = fs)]_vars

\* C18 witness: the write of a node that already has both rows was rejected as a
\* duplicate of the primary key.
C18_Witness ==
    /\ pc = "failed"
    /\ shardErr = IntegrityError
    /\ Node \in Ids(Db.parameters)
    /\ Node \in Ids(Db.curves)

====
